---- MODULE Spec2Model ----
(***************************************************************************)
(* A model of the ad-analytics chatbot: the SQLite-backed store of         *)
(* database_tools.py (init_database, execute_sql_query, get_table_schema,  *)
(* text_to_sql, get_database_info), the Markdown cleaner clean_markdown    *)
(* and the Streamlit script of chatbot_tugas.py (one script run per user   *)
(* interaction over st.session_state).                                     *)
(***************************************************************************)
EXTENDS Integers, Sequences, FiniteSets, TLC

VARIABLES
    fileExists,   \* os.path.exists(DB_PATH)
    db,           \* table name -> (rowid -> version of the row's values)
    locked,       \* a leaked connection still holds the write lock
    op,           \* the last call: its name, its statement, what the engine said
    ret,          \* what the last call returned
    answer,           \* the text handed to clean_markdown
    built,        \* how answer was put together
    plain,        \* clean_markdown(answer)
    twice,        \* clean_markdown(plain)
    tpc,          \* how far the cleaning of answer has got
    google_api_key,  \* the sidebar's text input
    session,      \* st.session_state
    shown,        \* the SQL the last script run displayed with st.code
    run           \* the last script run: what started it, where it got to

storeVars == <<fileExists, db, locked, op, ret>>

textVars == <<answer, built, plain, twice, tpc>>

chatVars == <<google_api_key, session, shown, run>>

vars == <<storeVars, textVars, chatVars>>

(***************************************************************************)
(* Bounds of the model.                                                    *)
(***************************************************************************)
\* how many times the seed set may pile up in one table
MaxSeedings == 2
\* how many rows the gateway may add to one table
MaxInserted == 1
\* how many characters the content of a fenced block has at most
MaxInner == 3
\* how many inline pieces a line of a document has at most
MaxPieces == 2
\* how many markers a line may lead with
MaxMarkers == 2
\* how many prompts a conversation holds at most
MaxTurns == 2

(***************************************************************************)
(* Small helpers.                                                          *)
(***************************************************************************)
Range(s) == {s[i] : i \in DOMAIN s}

Max(S) == CHOOSE x \in S : \A y \in S : y <= x

Min(S) == CHOOSE x \in S : \A y \in S : x <= y

RECURSIVE SortedIds(_)
\* the rowids of S in ascending order: the order a scan returns rows in
SortedIds(S) == IF S = {} THEN <<>> ELSE <<Min(S)>> \o SortedIds(S \ {Min(S)})

Take(s, n) == IF Len(s) <= n THEN s ELSE SubSeq(s, 1, n)

(***************************************************************************)
(* The schema of init_database.                                            *)
(***************************************************************************)
SeedTables == <<"campaigns", "ad_sets", "ads", "ad_metrics", "audiences">>

\* a table the gateway can add: PRAGMA table_info(on) accepts the name and
\* SELECT * FROM on refuses it ("order" is refused by both)
ExtraTables == {"on"}

Columns(t) ==
    CASE t = "campaigns" ->
           <<"campaign_id", "name", "objective", "status", "start_date", "end_date">>
      [] t = "ad_sets" ->
           <<"ad_set_id", "campaign_id", "name", "daily_budget", "bid_amount",
             "targeting", "start_date", "end_date", "status">>
      [] t = "ads" ->
           <<"ad_id", "ad_set_id", "name", "status", "creative_text",
             "creative_media", "tracking_url", "created_time">>
      [] t = "ad_metrics" ->
           <<"metric_id", "ad_id", "date", "impressions", "clicks", "spend",
             "conversions", "ctr", "cpc", "cpm">>
      [] t = "audiences" ->
           <<"audience_id", "name", "type", "size", "description">>
      [] OTHER -> <<"x">>

\* the INTEGER PRIMARY KEY column (an alias of the rowid); none in an extra table
PkOf(t) == IF t \in Range(SeedTables) THEN Columns(t)[1] ELSE "rowid"

\* every seed table declares one NOT NULL column besides its key
HasNotNull(t) == t \in Range(SeedTables)

SeedCount(t) ==
    CASE t = "campaigns" -> 3
      [] t = "ad_sets" -> 4
      [] t = "ads" -> 5
      [] t = "ad_metrics" -> 6
      [] t = "audiences" -> 3
      [] OTHER -> 0

\* versions of a row's values: the seed literals, a gateway INSERT, a gateway UPDATE
SeedVer == 0
InsertedVer == 1
UpdatedVer == 2

NoRows == <<>>

\* LIMIT 3 of the sample query
SampleLimit == 3

NextId(rows) == IF DOMAIN rows = {} THEN 1 ELSE Max(DOMAIN rows) + 1

CountOf(d, t) == IF t \in DOMAIN d THEN Cardinality(DOMAIN d[t]) ELSE 0

Counts(d) == [i \in DOMAIN SeedTables |-> CountOf(d, SeedTables[i])]

SeedCounts == [i \in DOMAIN SeedTables |-> SeedCount(SeedTables[i])]

\* cursor.executemany("INSERT INTO t (...) VALUES ...", n tuples): n new rowids
InsertSeedRows(rows, n) ==
    [i \in DOMAIN rows \cup (NextId(rows) .. (NextId(rows) + n - 1)) |->
        IF i \in DOMAIN rows THEN rows[i] ELSE SeedVer]

\* the five CREATE TABLE IF NOT EXISTS statements
CreateTablesIfAbsent(d) ==
    [t \in DOMAIN d \cup Range(SeedTables) |-> IF t \in DOMAIN d THEN d[t] ELSE NoRows]

\* the seeding without its emptiness check
SeedAlways(d) == [t \in DOMAIN d |-> InsertSeedRows(d[t], SeedCount(t))]

\* the seed inserts, guarded by SELECT COUNT(*) FROM campaigns = 0
SeedIfEmpty(d) ==
    IF Cardinality(DOMAIN d["campaigns"]) = 0
    THEN [t \in DOMAIN d |-> InsertSeedRows(d[t], SeedCount(t))]
    ELSE d

\* an initialization that drops and rebuilds the seed tables
InitFromScratch(d) ==
    [t \in DOMAIN d \cup Range(SeedTables) |->
        IF t \in Range(SeedTables) THEN InsertSeedRows(NoRows, SeedCount(t)) ELSE d[t]]

init_database(d) == SeedIfEmpty(CreateTablesIfAbsent(d))

\* with the write lock held elsewhere, the first statement that has to write fails
InitNeedsWrite(d) ==
    \/ \E t \in Range(SeedTables) : t \notin DOMAIN d
    \/ Cardinality(DOMAIN d["campaigns"]) = 0

(***************************************************************************)
(* SQL statements, as far as the gateway tells them apart.                 *)
(***************************************************************************)
Stmt(head, kind, table, cols, where, limit, mode, bare) ==
    [head |-> head, kind |-> kind, table |-> table, cols |-> cols,
     where |-> where, limit |-> limit, mode |-> mode, bare |-> bare]

NoStmt == Stmt("", "none", "", <<>>, 0, 0, "", FALSE)

\* query.strip().upper()
StripUpper(head) ==
    CASE head = "  select" -> "SELECT"
      [] head = "with" -> "WITH"
      [] OTHER -> head

\* query.strip().upper().startswith("SELECT")
IsSelectText(stmt) == StripUpper(stmt.head) = "SELECT"

ErrorResult(msg) == << [k \in {"error"} |-> msg] >>

AffectedResult(n) == << [k \in {"affected_rows"} |-> n] >>

Matching(rows, where) == IF where = 0 THEN DOMAIN rows ELSE DOMAIN rows \cap {where}

\* the columns a SELECT list names: * is every declared column
SelectList(stmt) == IF stmt.cols = <<"*">> THEN Columns(stmt.table) ELSE stmt.cols

CellValue(t, c, id, ver) == IF c = PkOf(t) THEN id ELSE ver

RECURSIVE DictOf(_, _, _, _)
\* {k: row[k] for k in row.keys()}: a later key of the same name overwrites
DictOf(keys, t, id, ver) ==
    IF keys = <<>> THEN <<>>
    ELSE LET k == keys[Len(keys)]
             rest == DictOf(SubSeq(keys, 1, Len(keys) - 1), t, id, ver)
         IN [c \in DOMAIN rest \cup {k} |->
                IF c = k THEN CellValue(t, k, id, ver) ELSE rest[c]]


(***************************************************************************)
(* What SQLite does with one statement on store d (lk: the write lock is   *)
(* held by another connection): the store afterwards, the rows a query     *)
(* yields, cursor.rowcount, the sqlite3.Error message ("" when none) and   *)
(* whether the failure left a write transaction open on the connection.    *)
(***************************************************************************)
Outcome(d, rows, rowcount, error, leak) ==
    [db |-> d, rows |-> rows, rowcount |-> rowcount, error |-> error, leak |-> leak]

Failed(d, msg) == Outcome(d, <<>>, -1, msg, FALSE)

\* SELECT * FROM on, SELECT * FROM order: a keyword where a name must stand
BareNameRefused(t) == t \in {"on", "order"}

\* PRAGMA table_info(order) is refused, PRAGMA table_info(on) is not
PragmaRefused(t) == t = "order"

Without(d, t) == [u \in DOMAIN d \ {t} |-> d[u]]

WithTable(d, t, rows) == [u \in DOMAIN d \cup {t} |-> IF u = t THEN rows ELSE d[u]]

RunQuery(d, stmt) ==
    LET ids == SortedIds(Matching(d[stmt.table], stmt.where))
        cut == IF stmt.limit = 0 THEN ids ELSE Take(ids, stmt.limit)
    IN Outcome(d, [i \in DOMAIN cut |-> <<cut[i], d[stmt.table][cut[i]]>>], -1, "", FALSE)

RunInsert(d, stmt) ==
    LET rows == d[stmt.table]
    IN CASE stmt.mode = "null" /\ HasNotNull(stmt.table) ->
              Outcome(d, <<>>, -1, "NOT NULL constraint failed", TRUE)
         [] stmt.mode = "dup" /\ 1 \in DOMAIN rows ->
              Outcome(d, <<>>, -1, "UNIQUE constraint failed", TRUE)
         [] OTHER ->
              LET id == IF stmt.mode = "dup" THEN 1 ELSE NextId(rows)
              IN Outcome(WithTable(d, stmt.table,
                                   [i \in DOMAIN rows \cup {id} |->
                                       IF i = id THEN InsertedVer ELSE rows[i]]),
                         <<>>, 1, "", FALSE)

RunUpdate(d, stmt) ==
    LET rows == d[stmt.table]
        hit == Matching(rows, stmt.where)
    IN Outcome(WithTable(d, stmt.table,
                         [i \in DOMAIN rows |-> IF i \in hit THEN UpdatedVer ELSE rows[i]]),
               <<>>, Cardinality(hit), "", FALSE)

RunDelete(d, stmt) ==
    LET rows == d[stmt.table]
        hit == Matching(rows, stmt.where)
    IN Outcome(WithTable(d, stmt.table, [i \in DOMAIN rows \ hit |-> rows[i]]),
               <<>>, Cardinality(hit), "", FALSE)

Reads(stmt) == stmt.kind \in {"select", "with"}

Engine(d, lk, stmt) ==
    CASE stmt.kind = "malformed" -> Failed(d, "syntax error")
      [] stmt.bare /\ BareNameRefused(stmt.table) -> Failed(d, "syntax error")
      [] stmt.kind = "create" /\ stmt.table \in DOMAIN d -> Failed(d, "table already exists")
      [] stmt.kind # "create" /\ stmt.table \notin DOMAIN d -> Failed(d, "no such table")
      [] Reads(stmt) /\ Range(SelectList(stmt)) \ Range(Columns(stmt.table)) # {} ->
           Failed(d, "no such column")
      [] Reads(stmt) -> RunQuery(d, stmt)
      [] lk -> Failed(d, "database is locked")
      [] stmt.kind = "create" -> Outcome(WithTable(d, stmt.table, NoRows), <<>>, -1, "", FALSE)
      [] stmt.kind = "drop" -> Outcome(Without(d, stmt.table), <<>>, -1, "", FALSE)
      [] stmt.kind = "insert" -> RunInsert(d, stmt)
      [] stmt.kind = "update" -> RunUpdate(d, stmt)
      [] OTHER -> RunDelete(d, stmt)

(***************************************************************************)
(* execute_sql_query: the result the gateway builds from the outcome.      *)
(***************************************************************************)
\* a gateway that fetches one row instead of all
RowDictsFetchOne(stmt, rows) ==
    [i \in DOMAIN Take(rows, 1) |->
        DictOf(SelectList(stmt), stmt.table, rows[i][1], rows[i][2])]

\* [{k: row[k] for k in row.keys()} for row in rows]
RowDicts(stmt, rows) ==
    [i \in DOMAIN rows |-> DictOf(SelectList(stmt), stmt.table, rows[i][1], rows[i][2])]

\* an except branch that swallows the error
OnSqliteErrorEmpty(msg) == <<>>

\* except sqlite3.Error as e: return [{"error": str(e)}]
OnSqliteError(msg) == ErrorResult(msg)

\* an else branch that counts fetched rows instead of reading cursor.rowcount
OnStatementFetched(out) == AffectedResult(Len(out.rows))

\* the else branch: [{"affected_rows": cursor.rowcount}]
OnStatement(out) == AffectedResult(out.rowcount)

execute_sql_query(d, lk, stmt) ==
    LET out == Engine(d, lk, stmt)
    IN IF out.error # "" THEN OnSqliteError(out.error)
       ELSE IF IsSelectText(stmt) THEN RowDicts(stmt, out.rows)
       ELSE OnStatement(out)

(***************************************************************************)
(* get_table_schema and get_database_info.                                 *)
(***************************************************************************)
ColumnInfo(t) ==
    [i \in DOMAIN Columns(t) |-> [name |-> Columns(t)[i], pk |-> Columns(t)[i] = PkOf(t)]]

\* one PRAGMA table_info(name) per table; any sqlite3.Error replaces the whole
\* result by {"error": message}
get_table_schema(d) ==
    IF \E t \in DOMAIN d : PragmaRefused(t)
    THEN [k \in {"error"} |-> "syntax error"]
    ELSE [t \in DOMAIN d |-> ColumnInfo(t)]

SampleQuery(t) == Stmt("SELECT", "select", t, <<"*">>, 0, SampleLimit, "", TRUE)

\* sample_data[table_name] = execute_sql_query(f"SELECT * FROM {table_name} LIMIT 3")
SampleOf(d, lk, t) == execute_sql_query(d, lk, SampleQuery(t))

SampleData(d, lk, schema) == [t \in DOMAIN schema |-> SampleOf(d, lk, t)]


(***************************************************************************)
(* The statements the callers send (the agent writes them; any text can    *)
(* arrive).                                                                *)
(***************************************************************************)
DmlTables == {"campaigns"}

DropTables == {"ads", "on"}

SelectStatements ==
    {Stmt("SELECT", "select", "campaigns", <<"*">>, 0, 0, "", FALSE),
     Stmt("SELECT", "select", "campaigns", <<"name", "name">>, 0, 0, "", FALSE),
     Stmt("  select", "select", "campaigns", <<"campaign_id", "name">>, 1, 0, "", FALSE),
     Stmt("SELECT", "select", "ads", <<"campaign_id">>, 0, 0, "", FALSE)}

OtherStatements ==
    {Stmt("SELEKT", "malformed", "campaigns", <<"*">>, 0, 0, "", FALSE),
     Stmt("with", "with", "campaigns", <<"*">>, 0, 0, "", FALSE)}
    \cup {Stmt("INSERT", "insert", t, <<>>, 0, 0, m, FALSE) :
            t \in DmlTables, m \in {"auto", "null", "dup"}}
    \cup {Stmt("UPDATE", "update", t, <<>>, w, 0, "", FALSE) : t \in DmlTables, w \in {0, 1}}
    \cup {Stmt("DELETE", "delete", t, <<>>, w, 0, "", FALSE) : t \in DmlTables, w \in {0, 1}}
    \cup {Stmt("DROP", "drop", t, <<>>, 0, 0, "", FALSE) : t \in DropTables}
    \cup {Stmt("CREATE", "create", t, <<>>, 0, 0, "", FALSE) : t \in ExtraTables}

Statements == SelectStatements \cup OtherStatements

\* what the model lets the agent's tool send
ToolStatements ==
    {Stmt("SELECT", "select", "campaigns", <<"*">>, 0, 0, "", FALSE),
     Stmt("SELEKT", "malformed", "campaigns", <<"*">>, 0, 0, "", FALSE),
     Stmt("DELETE", "delete", "campaigns", <<>>, 1, 0, "", FALSE)}

\* the model stops adding rows at its bounds
WithinBounds(d, stmt) ==
    stmt.kind = "insert" => CountOf(d, stmt.table) < SeedCount(stmt.table) + MaxInserted

SeedingWithinBounds(d) ==
    \A t \in Range(SeedTables) : CountOf(d, t) <= MaxSeedings * SeedCount(t)

(***************************************************************************)
(* The state and the calls.                                                *)
(***************************************************************************)
Before == [exists |-> fileExists, seeded |-> CountOf(db, "campaigns") > 0]

Call(name, stmt, error, raised) ==
    [name |-> name, stmt |-> stmt, error |-> error, raised |-> raised, before |-> Before]

Returned(query, results, schema, sample, message) ==
    [query |-> query, results |-> results, schema |-> schema,
     sample_data |-> sample, message |-> message]

Nothing == Returned(NoStmt, <<>>, <<>>, <<>>, "")

\* no call yet
StartCall ==
    [name |-> "start", stmt |-> NoStmt, error |-> "", raised |-> FALSE,
     before |-> [exists |-> FALSE, seeded |-> FALSE]]

\* the sidebar button (chatbot_tugas.py) and __main__ call init_database()
InitDatabase ==
    /\ IF locked /\ InitNeedsWrite(db)
       THEN \* sqlite3.OperationalError: database is locked, raised to the caller
            /\ op' = Call("init_database", NoStmt, "database is locked", TRUE)
            /\ ret' = Nothing
            /\ UNCHANGED <<fileExists, db, locked>>
       ELSE /\ SeedingWithinBounds(init_database(db))
            /\ db' = init_database(db)
            /\ fileExists' = TRUE
            /\ op' = Call("init_database", NoStmt, "", FALSE)
            /\ ret' = Returned(NoStmt, <<>>, <<>>, <<>>,
                               "Meta Ads database initialized with sample data.")
            /\ UNCHANGED locked
    /\ UNCHANGED <<textVars, chatVars>>

\* the connection of a failed write is never closed: its lock stays until the
\* collector finalizes it, which may be at once
LockAfter(out, l) == IF out.leak THEN l ELSE locked

ExecuteSqlQuery(stmt) ==
    LET out == Engine(db, locked, stmt)
    IN /\ WithinBounds(db, stmt)
       /\ fileExists' = TRUE
       /\ db' = out.db
       /\ \E l \in BOOLEAN : locked' = LockAfter(out, l)
       /\ op' = Call("execute_sql_query", stmt, out.error, FALSE)
       /\ ret' = Returned(NoStmt, execute_sql_query(db, locked, stmt), <<>>, <<>>, "")
       /\ UNCHANGED <<textVars, chatVars>>

\* the agent's execute_sql tool: init_database() first when the file is missing
TextToSql(stmt) ==
    LET d == IF fileExists THEN db ELSE init_database(db)
        out == Engine(d, locked, stmt)
    IN /\ WithinBounds(d, stmt)
       /\ fileExists' = TRUE
       /\ db' = out.db
       /\ \E l \in BOOLEAN : locked' = LockAfter(out, l)
       /\ op' = Call("text_to_sql", stmt, out.error, FALSE)
       /\ ret' = Returned(stmt, execute_sql_query(d, locked, stmt), <<>>, <<>>, "")
       /\ UNCHANGED <<textVars, chatVars>>

GetTableSchema ==
    /\ fileExists' = TRUE
    /\ op' = Call("get_table_schema", NoStmt, "", FALSE)
    /\ ret' = Returned(NoStmt, <<>>, get_table_schema(db), <<>>, "")
    /\ UNCHANGED <<db, locked, textVars, chatVars>>

\* the agent's get_schema_info tool
GetDatabaseInfo ==
    LET d == IF fileExists THEN db ELSE init_database(db)
        schema == get_table_schema(d)
    IN /\ fileExists' = TRUE
       /\ db' = d
       /\ op' = Call("get_database_info", NoStmt, "", FALSE)
       /\ ret' = Returned(NoStmt, <<>>, schema, SampleData(d, locked, schema), "")
       /\ UNCHANGED <<locked, textVars, chatVars>>

\* the collector finalizes the leaked connection: its transaction rolls back
CollectGarbage ==
    /\ locked
    /\ locked' = FALSE
    /\ op' = Call("gc", NoStmt, "", FALSE)
    /\ ret' = Nothing
    /\ UNCHANGED <<fileExists, db, textVars, chatVars>>

StoreNext ==
    \/ InitDatabase
    \/ \E stmt \in Statements : ExecuteSqlQuery(stmt)
    \/ \E stmt \in ToolStatements : TextToSql(stmt)
    \/ GetTableSchema
    \/ GetDatabaseInfo
    \/ CollectGarbage


(***************************************************************************)
(* clean_markdown: text is a sequence of one-character strings; each       *)
(* re.sub is a scan from the left that replaces the leftmost match and     *)
(* goes on after it.                                                       *)
(***************************************************************************)
\* the backtick, which a TLA+ string cannot hold
Tick == "'"

Fence == <<Tick, Tick, Tick>>

\* \w, as far as the alphabet of the model goes
WordChars == {"a", "b", "s", "_"}

\* \s
IsSpace(c) == c \in {" ", "\n"}

At(s, i, tok) ==
    /\ i + Len(tok) - 1 <= Len(s)
    /\ \A k \in 1 .. Len(tok) : s[i + k - 1] = tok[k]

\* the first place at or after from where tok stands, 0 when there is none;
\* with sameLine the text skipped holds no newline (. does not match one)
Find(s, from, tok, sameLine) ==
    LET C == {j \in from .. Len(s) :
                 /\ At(s, j, tok)
                 /\ sameLine => \A k \in from .. (j - 1) : s[k] # "\n"}
    IN IF C = {} THEN 0 ELSE Min(C)

\* the first place at or after from whose character is not in S (Len(s) + 1
\* when every character is)
SkipWhile(s, from, S) ==
    LET C == {j \in from .. Len(s) : s[j] \notin S}
    IN IF C = {} THEN Len(s) + 1 ELSE Min(C)

\* where the content of a fenced block opened at i starts: after (?:\w*\n)?
AfterTag(s, i) ==
    LET k == SkipWhile(s, i + 3, WordChars)
    IN IF k <= Len(s) /\ s[k] = "\n" THEN k + 1 ELSE i + 3

RECURSIVE FencedFrom(_, _)
FencedFrom(s, i) ==
    IF i > Len(s) THEN <<>>
    ELSE LET j == IF At(s, i, Fence) THEN Find(s, AfterTag(s, i), Fence, FALSE) ELSE 0
         IN IF j # 0
            THEN SubSeq(s, AfterTag(s, i), j - 1) \o FencedFrom(s, j + 3)
            ELSE <<s[i]>> \o FencedFrom(s, i + 1)

\* re.sub(r"FENCE(?:\w*\n)?(.*?)FENCE", r"\1", s, flags=re.S), FENCE three backticks
StripFenced(s) == FencedFrom(s, 1)

RECURSIVE PairFrom(_, _, _, _)
PairFrom(s, i, tok, sameLine) ==
    IF i > Len(s) THEN <<>>
    ELSE LET j == IF At(s, i, tok) THEN Find(s, i + Len(tok), tok, sameLine) ELSE 0
         IN IF j # 0
            THEN SubSeq(s, i + Len(tok), j - 1) \o PairFrom(s, j + Len(tok), tok, sameLine)
            ELSE <<s[i]>> \o PairFrom(s, i + 1, tok, sameLine)

\* re.sub(r"TICK([^TICK]*)TICK", r"\1", s), TICK one backtick
StripInlineCode(s) == PairFrom(s, 1, <<Tick>>, FALSE)

\* re.sub(r"\*\*(.*?)\*\*", ...), r"\*(.*?)\*", r"__(.*?)__", r"_(.*?)_", in turn
StripEmphasis(s) ==
    PairFrom(PairFrom(PairFrom(PairFrom(s, 1, <<"*", "*">>, TRUE),
                               1, <<"*">>, TRUE),
                      1, <<"_", "_">>, TRUE),
             1, <<"_">>, TRUE)

\* ^ under re.M
LineStart(s, i) == i = 1 \/ s[i - 1] = "\n"

RECURSIVE HeadingsOneHashFrom(_, _)
\* a heading pattern that takes one # only: ^#\s*
HeadingsOneHashFrom(s, i) ==
    IF i > Len(s) THEN <<>>
    ELSE IF LineStart(s, i) /\ s[i] = "#"
         THEN HeadingsOneHashFrom(s, SkipWhile(s, i + 1, {" ", "\n"}))
         ELSE <<s[i]>> \o HeadingsOneHashFrom(s, i + 1)

StripOneHash(s) == HeadingsOneHashFrom(s, 1)

RECURSIVE HeadingsFrom(_, _)
HeadingsFrom(s, i) ==
    IF i > Len(s) THEN <<>>
    ELSE IF LineStart(s, i) /\ s[i] = "#"
         THEN HeadingsFrom(s, SkipWhile(s, SkipWhile(s, i, {"#"}), {" ", "\n"}))
         ELSE <<s[i]>> \o HeadingsFrom(s, i + 1)

\* re.sub(r"^#+\s*", "", s, flags=re.M)
StripHeadings(s) == HeadingsFrom(s, 1)

\* where a link opened at i ends (its closing parenthesis), 0 when s[i] opens none
LinkEnd(s, i) ==
    LET k == Find(s, i + 1, <<"]">>, FALSE)
        m == IF k = 0 THEN 0 ELSE Find(s, k + 2, <<")">>, FALSE)
    IN IF /\ s[i] = "["
          /\ k > i + 1
          /\ At(s, k + 1, <<"(">>)
          /\ m > k + 2
       THEN m ELSE 0

RECURSIVE LinksFrom(_, _)
LinksFrom(s, i) ==
    IF i > Len(s) THEN <<>>
    ELSE LET m == LinkEnd(s, i)
             k == Find(s, i + 1, <<"]">>, FALSE)
         IN IF m # 0
            THEN SubSeq(s, i + 1, k - 1) \o <<" ", "(">> \o SubSeq(s, k + 2, m - 1)
                    \o <<")">> \o LinksFrom(s, m + 1)
            ELSE <<s[i]>> \o LinksFrom(s, i + 1)

\* re.sub(r"\[([^\]]+)\]\(([^)]+)\)", r"\1 (\2)", s)
RewriteLinks(s) == LinksFrom(s, 1)

RECURSIVE QuotesFrom(_, _)
QuotesFrom(s, i) ==
    IF i > Len(s) THEN <<>>
    ELSE IF LineStart(s, i) /\ s[i] = ">"
         THEN QuotesFrom(s, IF i + 1 <= Len(s) /\ IsSpace(s[i + 1]) THEN i + 2 ELSE i + 1)
         ELSE <<s[i]>> \o QuotesFrom(s, i + 1)

\* re.sub(r"^>\s?", "", s, flags=re.M)
StripQuotes(s) == QuotesFrom(s, 1)

RECURSIVE BlankLinesFrom(_, _)
BlankLinesFrom(s, i) ==
    IF i > Len(s) THEN <<>>
    ELSE LET e == SkipWhile(s, i, {" ", "\n"}) - 1
             nl == {k \in i .. e : s[k] = "\n"}
         IN IF s[i] = "\n" /\ Cardinality(nl) >= 3
            THEN <<"\n", "\n">> \o BlankLinesFrom(s, Max(nl) + 1)
            ELSE <<s[i]>> \o BlankLinesFrom(s, i + 1)

\* re.sub(r"\n\s*\n\s*\n+", "\n\n", s)
CollapseBlankLines(s) == BlankLinesFrom(s, 1)

\* s.strip()
Strip(s) ==
    LET keep == {k \in 1 .. Len(s) : ~IsSpace(s[k])}
    IN IF keep = {} THEN <<>> ELSE SubSeq(s, Min(keep), Max(keep))

clean_markdown(md) ==
    IF md = <<>> THEN <<>>
    ELSE Strip(CollapseBlankLines(StripQuotes(RewriteLinks(StripHeadings(
             StripEmphasis(StripInlineCode(StripFenced(md))))))))

(***************************************************************************)
(* The texts clean_markdown is run on: one fenced block, or a document of  *)
(* one or two lines, each a run of line-leading markers and inline pieces. *)
(***************************************************************************)
RECURSIVE Flatten(_)
Flatten(ss) == IF ss = <<>> THEN <<>> ELSE Head(ss) \o Flatten(Tail(ss))

SeqsUpTo(S, n) == UNION {[1 .. k -> S] : k \in 0 .. n}

InnerAlphabet == {"a", "_", "*", "#", " ", "\n"}

\* the opening fence's line: no language tag, or the tag s
Tags == {<<"\n">>, <<"s", "\n">>}

FencedBlock(tag, inner) == Fence \o tag \o inner \o Fence

InlinePieces ==
    {<<"a">>, <<" ">>,
     FencedBlock(<<"s", "\n">>, <<"a">>),
     <<Tick, "a", Tick>>,
     <<"*", "*", "a", "*", "*">>,
     <<"*", "a", "*">>,
     <<"_", "_", "a", "_", "_">>,
     <<"_", "a", "_">>,
     <<"[", "a", "]", "(", "s", ")">>}

Markers == {<<"#", " ">>, <<"#", "#", " ">>, <<">", " ">>, <<">">>}

Line(markers, pieces) == Flatten(markers) \o Flatten(pieces)

SecondLines ==
    {<<>>} \cup {<<"\n">> \o m \o <<"a">> : m \in {<<>>, <<"#", " ">>, <<">", " ">>}}

NotBuilt == [kind |-> "none", tag |-> <<>>, inner |-> <<>>, markers |-> 0]

\* an empty session; the page has run once, without a credential
NewSession ==
    [agent |-> FALSE, last_key |-> "", has_messages |-> FALSE, messages |-> <<>>,
     last_sql_query |-> ""]

FirstRun ==
    [event |-> "start", handled |-> FALSE, stopped |-> TRUE, rebuilt |-> FALSE, gate |-> 0]

\* no store file, no text to clean, a new session
Init ==
    /\ fileExists = FALSE
    /\ db = <<>>
    /\ locked = FALSE
    /\ op = StartCall
    /\ ret = Nothing
    /\ answer = <<>>
    /\ built = NotBuilt
    /\ plain = <<>>
    /\ twice = <<>>
    /\ tpc = "idle"
    /\ google_api_key = ""
    /\ session = NewSession
    /\ shown = ""
    /\ run = FirstRun

TextInit ==
    /\ fileExists = FALSE
    /\ db = <<>>
    /\ locked = FALSE
    /\ op = StartCall
    /\ ret = Nothing
    /\ google_api_key = ""
    /\ session = NewSession
    /\ shown = ""
    /\ run = FirstRun
    /\ \/ \E tag \in Tags, inner \in SeqsUpTo(InnerAlphabet, MaxInner) :
             /\ answer = FencedBlock(tag, inner)
             /\ built = [kind |-> "fenced", tag |-> tag, inner |-> inner, markers |-> 0]
       \/ \E ms \in SeqsUpTo(Markers, MaxMarkers), ps \in SeqsUpTo(InlinePieces, MaxPieces),
             second \in SecondLines :
             /\ answer = Line(ms, ps) \o second
             /\ built = [kind |-> "doc", tag |-> <<>>, inner |-> <<>>, markers |-> Len(ms)]
    /\ plain = <<>>
    /\ twice = <<>>
    /\ tpc = "input"

\* st.text(clean_markdown(answer))
CleanMarkdown ==
    /\ tpc = "input"
    /\ plain' = clean_markdown(answer)
    /\ tpc' = "cleaned"
    /\ UNCHANGED <<answer, built, twice, storeVars, chatVars>>

\* the cleaner run on its own output
CleanAgain ==
    /\ tpc = "cleaned"
    /\ twice' = clean_markdown(plain)
    /\ tpc' = "recleaned"
    /\ UNCHANGED <<answer, built, plain, storeVars, chatVars>>

TextNext ==
    \/ CleanMarkdown
    \/ CleanAgain

(***************************************************************************)
(* The chat page: one action per run of the script, started by one widget. *)
(***************************************************************************)
Keys == {"", "k1", "k2"}

Prompts == {"hi"}

\* "last_sql_query" not in st.session_state
NoSql == ""

Message(role, content) == [role |-> role, content |-> content]

\* what agent.invoke did: the tool it called, and how it ended
AgentOutcomes ==
    [kind : {"raises", "empty", "answer"}, tool : {"none", "get_schema_info"},
     stmt : {NoStmt}]
    \cup [kind : {"raises", "empty", "answer"}, tool : {"execute_sql"},
          stmt : ToolStatements]

Stopped(ss) == [session |-> ss, stopped |-> TRUE, rebuilt |-> FALSE]

\* the script from the key check to the creation of the history
Gate(ss, key, built_ok) ==
    IF key = "" THEN Stopped(ss)
    ELSE IF (~ss.agent) \/ ss.last_key # key
    THEN IF built_ok
         THEN [session |-> [ss EXCEPT !.agent = TRUE, !.last_key = key,
                                      !.has_messages = TRUE, !.messages = <<>>],
               stopped |-> FALSE, rebuilt |-> TRUE]
         ELSE Stopped(ss)
    ELSE [session |-> [ss EXCEPT !.has_messages = TRUE], stopped |-> FALSE,
          rebuilt |-> FALSE]

\* if reset_button: pop agent, pop messages, st.rerun()
Reset(ss, key, rebuilt_ok) ==
    Gate([ss EXCEPT !.agent = FALSE, !.has_messages = FALSE, !.messages = <<>>],
         key, rebuilt_ok)

\* the loop over response["messages"]
Extracted(outcome) ==
    IF outcome.kind = "answer" /\ outcome.tool = "execute_sql"
    THEN outcome.stmt.head ELSE NoSql

AnswerOf(outcome) ==
    CASE outcome.kind = "raises" -> "Terjadi kesalahan"
      [] outcome.kind = "empty" -> "Maaf, saya tidak dapat menghasilkan respon."
      [] OTHER -> "answer"

\* if prompt: ...
HandlePrompt(ss, prompt, outcome) ==
    [ss EXCEPT !.messages = Append(Append(ss.messages, Message("user", prompt)),
                                   Message("assistant", AnswerOf(outcome))),
               !.last_sql_query = NoSql]

\* st.code(sql_query, language="sql")
ShownBy(ss, outcome) ==
    IF Extracted(outcome) # NoSql THEN Extracted(outcome) ELSE ss.last_sql_query

\* the store after the tool the agent called
AfterTool(d, exists, outcome) ==
    LET d0 == IF exists THEN d ELSE init_database(d)
    IN CASE outcome.tool = "none" -> d
         [] outcome.tool = "get_schema_info" -> d0
         [] OTHER -> Engine(d0, FALSE, outcome.stmt).db

\* handled: the run got past the key check and the agent; stopped: it ended
\* in st.stop(), so the page shows no chat input
Ran(event, g, stopped) ==
    [event |-> event, handled |-> ~g.stopped, stopped |-> stopped,
     rebuilt |-> g.rebuilt, gate |-> Len(g.session.messages)]

\* the user enters another credential
EnterKey(key, built_ok) ==
    LET g == Gate(session, key, built_ok)
    IN /\ key # google_api_key
       /\ google_api_key' = key
       /\ session' = g.session
       /\ shown' = NoSql
       /\ run' = Ran("key", g, g.stopped)
       /\ UNCHANGED <<storeVars, textVars>>

\* the user clicks Inisialisasi Database Iklan
ClickInitDb(built_ok) ==
    LET g == Gate(session, google_api_key, built_ok)
    IN /\ SeedingWithinBounds(init_database(db))
       /\ db' = init_database(db)
       /\ fileExists' = TRUE
       /\ session' = g.session
       /\ shown' = NoSql
       /\ run' = Ran("init_db", g, g.stopped)
       /\ UNCHANGED <<locked, op, ret, textVars, google_api_key>>

\* the user clicks Reset Percakapan
ClickReset(built_ok, rebuilt_ok) ==
    LET g == Gate(session, google_api_key, built_ok)
        again == Reset(g.session, google_api_key, rebuilt_ok)
    IN /\ session' = IF g.stopped THEN g.session ELSE again.session
       /\ shown' = NoSql
       /\ run' = Ran("reset", g, g.stopped \/ again.stopped)
       /\ UNCHANGED <<storeVars, textVars, google_api_key>>

\* the user sends a prompt
SubmitPrompt(prompt, outcome, built_ok) ==
    LET g == Gate(session, google_api_key, built_ok)
    IN /\ ~run.stopped
       /\ Len(session.messages) < 2 * MaxTurns
       /\ run' = Ran("prompt", g, g.stopped)
       /\ IF g.stopped
          THEN /\ session' = g.session
               /\ shown' = NoSql
               /\ UNCHANGED <<fileExists, db>>
          ELSE /\ session' = HandlePrompt(g.session, prompt, outcome)
               /\ shown' = ShownBy(g.session, outcome)
               /\ db' = AfterTool(db, fileExists, outcome)
               /\ fileExists' = (fileExists \/ outcome.tool # "none")
       /\ UNCHANGED <<locked, op, ret, textVars, google_api_key>>

ChatNext ==
    \/ \E key \in Keys, built_ok \in BOOLEAN : EnterKey(key, built_ok)
    \/ \E built_ok \in BOOLEAN : ClickInitDb(built_ok)
    \/ \E built_ok, rebuilt_ok \in BOOLEAN : ClickReset(built_ok, rebuilt_ok)
    \/ \E prompt \in Prompts, outcome \in AgentOutcomes, built_ok \in BOOLEAN :
          SubmitPrompt(prompt, outcome, built_ok)

Spec == Init /\ [][StoreNext]_vars

SpecText == TextInit /\ [][TextNext]_vars

SpecChat == Init /\ [][ChatNext]_vars

(***************************************************************************)
(* The chat page's properties.                                             *)
(***************************************************************************)
Alternates(ms) ==
    \A i \in DOMAIN ms : ms[i].role = IF i % 2 = 1 THEN "user" ELSE "assistant"

\* what holds of the history at the end of every run: roles alternate from
\* user, the length is even, a handled prompt adds one user turn and one
\* assistant turn, a handled reset and a rebuilt agent start from an empty
\* history, no extracted SQL outlives its run and none is shown in a later one
HistoryWellFormed ==
    /\ Alternates(session.messages)
    /\ Len(session.messages) % 2 = 0
    /\ (run.event = "prompt" /\ run.handled) => Len(session.messages) = run.gate + 2
    /\ (run.event = "reset" /\ run.handled) => session.messages = <<>>
    /\ run.rebuilt => run.gate = 0
    /\ session.last_sql_query = NoSql

ShownIsOfThisRun ==
    [][shown' # NoSql =>
         \E o \in AgentOutcomes : /\ o.tool = "execute_sql"
                                  /\ shown' = o.stmt.head
                                  /\ db' = AfterTool(db, fileExists, o)]_vars

\* C10 (as stated): at the end of every run the history alternates from
\* user, its length is even, a prompt that was handled added one user turn
\* and one assistant turn, a run started by the reset button leaves the
\* history empty, and so does a run after which the session works with
\* another credential, and last_sql_query is unset.
C10_HistoryAfterEveryRun ==
    /\ Alternates(session.messages)
    /\ Len(session.messages) % 2 = 0
    /\ (run.event = "prompt" /\ run.handled) => Len(session.messages) = run.gate + 2
    /\ run.event = "reset" => session.messages = <<>>
    /\ (run.event = "key" /\ run.rebuilt) => session.messages = <<>>
    /\ session.last_sql_query = NoSql


(***************************************************************************)
(* The cleaner's properties.                                               *)
(***************************************************************************)
\* C8 (as stated): a fenced block, with or without a language tag on its
\* opening fence, is replaced by its inner content, trimmed and otherwise
\* unchanged.
C8_FencedBlockKeepsContent ==
    (tpc # "input" /\ built.kind = "fenced") => plain = Strip(built.inner)

IsGateway(o) == o.name = "execute_sql_query"

IdsOf(d, t) == IF t \in DOMAIN d THEN DOMAIN d[t] ELSE {}

\* the rows a statement inserted or deleted, or the rows left carrying an
\* UPDATE's values
RowsChanged(d, e, stmt) ==
    IF stmt.kind = "update"
    THEN Cardinality({i \in Matching(e[stmt.table], stmt.where) :
                          e[stmt.table][i] = UpdatedVer})
    ELSE Cardinality((IdsOf(d, stmt.table) \ IdsOf(e, stmt.table))
                     \cup (IdsOf(e, stmt.table) \ IdsOf(d, stmt.table)))

\* every row of d is still in e, with the values it had
RowsKept(d, e) ==
    \A t \in DOMAIN d :
        /\ t \in DOMAIN e
        /\ \A i \in DOMAIN d[t] : i \in DOMAIN e[t] /\ e[t][i] = d[t][i]

\* no file, a file with no table, or tables without rows
EmptyStore(d) == \A t \in DOMAIN d : d[t] = NoRows

HoldsSeedTables(d) ==
    \A t \in Range(SeedTables) : t \in DOMAIN d /\ CountOf(d, t) = SeedCount(t)

SampleFails(d, lk, t) == Engine(d, lk, SampleQuery(t)).error # ""

\* C1: a statement the storage engine refuses (syntax error, missing table or
\* column, constraint violation, lock) makes execute return, without raising,
\* exactly one mapping, and that mapping has the key "error".
C1_QueryErrorIsReturned ==
    (op.name \in {"execute_sql_query", "text_to_sql"} /\ op.error # "")
        => /\ ~op.raised
           /\ Len(ret.results) = 1
           /\ "error" \in DOMAIN ret.results[1]

C1_Witness ==
    /\ IsGateway(op)
    /\ op.stmt.kind = "insert"
    /\ op.error = "UNIQUE constraint failed"
    /\ ret.results = ErrorResult("UNIQUE constraint failed")

\* C2 (as stated): every statement whose text does not begin with SELECT and
\* that does not fail returns one mapping {affected_rows: n}, n the number of
\* rows the statement changed.
C2_AffectedRowsIsRowsChanged ==
    [][(IsGateway(op') /\ ~IsSelectText(op'.stmt) /\ op'.error = "")
          => ret'.results = AffectedResult(RowsChanged(db, db', op'.stmt))]_vars

\* C2 (amended): such a statement returns one mapping {affected_rows: n}; n is
\* the number of rows changed for INSERT, UPDATE and DELETE, and -1 for every
\* other statement (CREATE TABLE, DROP TABLE, WITH ... SELECT).
C2_AffectedRowsIsRowcount ==
    [][(IsGateway(op') /\ ~IsSelectText(op'.stmt) /\ op'.error = "")
          => ret'.results =
                AffectedResult(IF op'.stmt.kind \in {"insert", "update", "delete"}
                               THEN RowsChanged(db, db', op'.stmt)
                               ELSE -1)]_vars

C2_Witness ==
    /\ IsGateway(op)
    /\ op.stmt.kind = "delete"
    /\ op.stmt.where = 0
    /\ op.error = ""
    /\ ret.results = AffectedResult(SeedCount("campaigns") + MaxInserted)

C4_SeedingIsIdempotent ==
    [][(op'.name = "init_database" /\ ~op'.raised)
          => /\ CountOf(db, "campaigns") > 0 => Counts(db') = Counts(db)
             /\ EmptyStore(db) => Counts(db') = SeedCounts
             /\ (op.name = "init_database" /\ ~op.raised /\ Counts(db) = SeedCounts)
                    => Counts(db') = SeedCounts]_vars

C4_Witness ==
    /\ op.name = "init_database"
    /\ ~op.raised
    /\ op.before.seeded
    /\ Counts(db) = SeedCounts

\* C5 (as stated): from a state without the store file, get_table_schema and
\* get_database_info both leave the five seeded tables behind, and
\* get_database_info finds the five tables after any earlier calls.
C5_IntrospectorInitializes ==
    [][/\ (~fileExists /\ op'.name \in {"get_table_schema", "get_database_info"})
            => HoldsSeedTables(db')
       /\ (op'.name = "get_database_info" /\ EmptyStore(db))
            => HoldsSeedTables(db')]_vars

\* C6 (as stated): no call modifies or removes a row once it exists.
C6_NoRowModifiedOrRemoved == [][RowsKept(db, db')]_vars

\* C6 (amended): only a statement sent through the gateway whose text does not
\* begin with SELECT modifies or removes a row; init_database, the two
\* introspector calls and SELECT statements keep every existing row.
C6_OnlyStatementsModifyRows ==
    [][\/ op'.name \in {"execute_sql_query", "text_to_sql"} /\ ~IsSelectText(op'.stmt)
       \/ RowsKept(db, db')]_vars

C6_Witness ==
    /\ op.name = "init_database"
    /\ ~op.raised
    /\ op.before.seeded
    /\ \E i \in DOMAIN db["campaigns"] : db["campaigns"][i] = UpdatedVer

\* C7 (as stated): get_database_info returns, for every table name of the
\* schema, at most 3 sample rows, and the empty sequence when the sample
\* query of that table fails.
C7_FailedSampleIsEmpty ==
    op.name = "get_database_info"
        => \A t \in DOMAIN ret.schema :
              /\ t \in DOMAIN ret.sample_data
              /\ Len(ret.sample_data[t]) <= SampleLimit
              /\ SampleFails(db, locked, t) => ret.sample_data[t] = <<>>

====
